---- MODULE Spec2Model ----
(***************************************************************************)
(* libppm: the Image pixel buffer (graphics/image.rs), its validator       *)
(* (validate.rs), the coordinate types (coordinate.rs) and the line and    *)
(* circle rasterizers (graphics/lines.rs, graphics/circles.rs).            *)
(*                                                                         *)
(* An Option<T> is modelled as a sequence: <<>> is None, <<v>> is Some(v). *)
(* A Vec<u32> is a sequence indexed from 1, so the cell with the flat      *)
(* index i of the code is data[i + 1].                                     *)
(***************************************************************************)
EXTENDS Integers, Sequences, FiniteSets, TLC

\* ---------------------------------------------------------------- bounds
\* Largest rows / cols a session of Spec configures.
MaxDim == 2
\* Largest rows / cols of SpecLines.
LineDim == 4
\* Largest rows / cols and largest radius of SpecCircles.
CircleDim == 7
MaxRadius == 3
\* Largest tile size handed to checkerboard.
MaxTile == 2
\* Largest rows / cols of a PPMImage in SpecWriter.
WriterDim == 2
\* Largest rows / cols of SpecSteps.
StepDim == 7

\* Largest rows / cols of a PPMImage in SpecPPM.
PPMDim == 3

\* ---------------------------------------------------------------- colors.rs
BLACK == 0
WHITE == 16777215
MAGENTA == 16711935
Colors == {BLACK, WHITE}

\* ---------------------------------------------------------------- coordinate.rs
Coordinate(x, y) == [x |-> x, y |-> y]

LineCoordinates(a_x, a_y, b_x, b_y) ==
    [first |-> Coordinate(a_x, a_y), second |-> Coordinate(b_x, b_y)]

CircleCoordinates(x, y, radius) == [center |-> Coordinate(x, y), radius |-> radius]

\* (dx, dy) of other relative to self.
delta_wrt(self, other) == [dx |-> other.x - self.x, dy |-> other.y - self.y]

ensure_x_lr_KeepsOrder(l) ==
    LineCoordinates(l.first.x, l.first.y, l.second.x, l.second.y)

ensure_x_lr(l) ==
    IF l.first.x <= l.second.x
    THEN LineCoordinates(l.first.x, l.first.y, l.second.x, l.second.y)
    ELSE LineCoordinates(l.second.x, l.second.y, l.first.x, l.first.y)

ensure_y_lr_SwapsOnEqual(l) ==
    IF l.first.y < l.second.y
    THEN LineCoordinates(l.first.x, l.first.y, l.second.x, l.second.y)
    ELSE LineCoordinates(l.second.x, l.second.y, l.first.x, l.first.y)

ensure_y_lr(l) ==
    IF l.first.y <= l.second.y
    THEN LineCoordinates(l.first.x, l.first.y, l.second.x, l.second.y)
    ELSE LineCoordinates(l.second.x, l.second.y, l.first.x, l.first.y)

\* ---------------------------------------------------------------- image.rs: Image
Image(rows, cols, data) == [rows |-> rows, cols |-> cols, data |-> data]

\* The value of `image` while no Image has been built.
NoImage == Image(0, 0, <<>>)

NoCoordinate == Coordinate(0, 0)

get_data_length(image) == Len(image.data)

\* ---------------------------------------------------------------- results
\* Result<_, ValidationError> / Result<Image, ImageBuilderError>: kind is "Ok"
\* or the error variant; coord and snapshot are the variant's payload
\* (Coordinate, Image); value is the u32 of an Ok(u32).
Ok == [kind |-> "Ok", coord |-> NoCoordinate, snapshot |-> NoImage, value |-> 0]

OkValue(v) == [Ok EXCEPT !.value = v]

Err(kind, coord, image) ==
    [kind |-> kind, coord |-> coord, snapshot |-> image, value |-> 0]

IsOk(r) == r.kind = "Ok"

\* ---------------------------------------------------------------- validate.rs
coordinate_InclusiveUpperBound(image, coord) ==
    IF \/ coord.x > image.rows
       \/ coord.y > image.cols
       \/ coord.x < 0
       \/ coord.y < 0
    THEN Err("OutOfBoundsInImageError", coord, image)
    ELSE IF (coord.x * image.cols) + coord.y > get_data_length(image)
         THEN Err("OutOfBoundsInMemoryError", coord, image)
         ELSE Ok

coordinate(image, coord) ==
    IF \/ coord.x >= image.rows
       \/ coord.y >= image.cols
       \/ coord.x < 0
       \/ coord.y < 0
    THEN Err("OutOfBoundsInImageError", coord, image)
    ELSE IF (coord.x * image.cols) + coord.y > get_data_length(image)
         THEN Err("OutOfBoundsInMemoryError", coord, image)
         ELSE Ok

line_coordinates_SecondFirst(image, coords) ==
    LET rb == coordinate(image, coords.second) IN
    IF ~IsOk(rb) THEN rb ELSE coordinate(image, coords.first)

line_coordinates(image, coords) ==
    LET ra == coordinate(image, coords.first) IN
    IF ~IsOk(ra) THEN ra ELSE coordinate(image, coords.second)

circle_coordinates_ChecksRadius(image, coord) ==
    IF \/ coord.center.x - coord.radius < 0 \/ coord.center.x + coord.radius >= image.rows
       \/ coord.center.y - coord.radius < 0 \/ coord.center.y + coord.radius >= image.cols
    THEN Err("OutOfBoundsInImageError", coord.center, image)
    ELSE coordinate(image, coord.center)

circle_coordinates(image, coord) == coordinate(image, coord.center)

pixel_data_length(image) ==
    IF get_data_length(image) > image.cols * image.rows
    THEN Err("TooMuchPixelData", NoCoordinate, image)
    ELSE IF get_data_length(image) < image.cols * image.rows
         THEN Err("NotEnoughPixelData", NoCoordinate, image)
         ELSE Ok

\* ---------------------------------------------------------------- image.rs: pixels
\* self.data[pixel_index] = color. An index outside the Vec panics in the code;
\* here the write is then dropped (validate::coordinate keeps it from happening).
Store(image, pixel_index, color) ==
    IF pixel_index + 1 \in DOMAIN image.data
    THEN [image EXCEPT !.data[pixel_index + 1] = color]
    ELSE image

\* A drawing call in progress: the buffer, the Result so far, and the
\* coordinates set_pixel has written, in order.
Running(image) == [image |-> image, ret |-> Ok, plotted |-> <<>>]

set_pixel_TransposedIndex(image, coord, color) ==
    LET v == coordinate(image, coord) IN
    IF ~IsOk(v)
    THEN [image |-> image, ret |-> v]
    ELSE [image |-> Store(image, coord.y * image.cols + coord.x, color), ret |-> Ok]

set_pixel_ValidatesAfterWrite(image, coord, color) ==
    LET v == coordinate(image, coord) IN
    [image |-> Store(image, coord.x * image.cols + coord.y, color), ret |-> v]

set_pixel(image, coord, color) ==
    LET v == coordinate(image, coord) IN
    IF ~IsOk(v)
    THEN [image |-> image, ret |-> v]
    ELSE [image |-> Store(image, coord.x * image.cols + coord.y, color), ret |-> Ok]

get_pixel(image, coord) ==
    LET v == coordinate(image, coord)
        pixel_index == coord.x * image.cols + coord.y
    IN  IF ~IsOk(v)
        THEN v
        ELSE IF pixel_index + 1 \in DOMAIN image.data
             THEN OkValue(image.data[pixel_index + 1])
             ELSE Err("panic", coord, image)

fill_SkipsLastCell(image, color) ==
    [image EXCEPT !.data = [index \in 1..Len(image.data) |->
                               IF index < Len(image.data) THEN color ELSE image.data[index]]]

fill_DropsLastCell(image, color) ==
    [image EXCEPT !.data = [index \in 1..(Len(image.data) - 1) |-> color]]

fill(image, color) ==
    [image EXCEPT !.data = [index \in 1..Len(image.data) |-> color]]

checkerboard_PaintsOddTiles(image, tile_size, tile_color) ==
    [image EXCEPT !.data =
        [i \in 1..Len(image.data) |->
            LET row == (i - 1) \div image.cols
                col == (i - 1) % image.cols
            IN  IF row < image.rows /\ ((row \div tile_size) + (col \div tile_size)) % 2 = 0
                THEN image.data[i]
                ELSE tile_color]]

\* tile_size >= 1: a tile_size of 0 divides by zero.
checkerboard(image, tile_size, tile_color) ==
    [image EXCEPT !.data =
        [i \in 1..Len(image.data) |->
            LET row == (i - 1) \div image.cols
                col == (i - 1) % image.cols
            IN  IF row < image.rows /\ ((row \div tile_size) + (col \div tile_size)) % 2 = 0
                THEN tile_color
                ELSE image.data[i]]]

\* ---------------------------------------------------------------- image.rs: ImageBuilder
None == <<>>
Some(v) == <<v>>
IsSome(o) == o # <<>>
Unwrap(o) == o[1]

ImageBuilder_new == [rows |-> None, cols |-> None, data |-> None]

BuildErr(kind) == [ret |-> Err(kind, NoCoordinate, NoImage), image |-> NoImage]

build_NoLengthCheck(b) ==
    IF ~IsSome(b.rows) THEN BuildErr("RowsNotProvided")
    ELSE IF Unwrap(b.rows) = 0 THEN BuildErr("ZeroSizedImage")
    ELSE IF ~IsSome(b.cols) THEN BuildErr("ColumnsNotProvided")
    ELSE IF Unwrap(b.cols) = 0 THEN BuildErr("ZeroSizedImage")
    ELSE LET rows == Unwrap(b.rows)
             cols == Unwrap(b.cols)
         IN  IF IsSome(b.data)
             THEN [ret |-> Ok, image |-> Image(rows, cols, Unwrap(b.data))]
             ELSE [ret |-> Ok, image |-> Image(rows, cols, [i \in 1..(rows * cols) |-> BLACK])]

build_RowsSquared(b) ==
    IF ~IsSome(b.rows) THEN BuildErr("RowsNotProvided")
    ELSE IF Unwrap(b.rows) = 0 THEN BuildErr("ZeroSizedImage")
    ELSE IF ~IsSome(b.cols) THEN BuildErr("ColumnsNotProvided")
    ELSE IF Unwrap(b.cols) = 0 THEN BuildErr("ZeroSizedImage")
    ELSE LET rows == Unwrap(b.rows)
             cols == Unwrap(b.cols)
         IN  IF IsSome(b.data)
             THEN IF Len(Unwrap(b.data)) # rows * cols
                  THEN BuildErr("DataDoesntMatchDimensions")
                  ELSE [ret |-> Ok, image |-> Image(rows, cols, Unwrap(b.data))]
             ELSE [ret |-> Ok, image |-> Image(rows, cols, [i \in 1..(rows * rows) |-> BLACK])]

build_IgnoresData(b) ==
    IF ~IsSome(b.rows) THEN BuildErr("RowsNotProvided")
    ELSE IF Unwrap(b.rows) = 0 THEN BuildErr("ZeroSizedImage")
    ELSE IF ~IsSome(b.cols) THEN BuildErr("ColumnsNotProvided")
    ELSE IF Unwrap(b.cols) = 0 THEN BuildErr("ZeroSizedImage")
    ELSE LET rows == Unwrap(b.rows)
             cols == Unwrap(b.cols)
         IN  IF IsSome(b.data) /\ Len(Unwrap(b.data)) # rows * cols
             THEN BuildErr("DataDoesntMatchDimensions")
             ELSE [ret |-> Ok, image |-> Image(rows, cols, [i \in 1..(rows * cols) |-> BLACK])]

build(b) ==
    IF ~IsSome(b.rows) THEN BuildErr("RowsNotProvided")
    ELSE IF Unwrap(b.rows) = 0 THEN BuildErr("ZeroSizedImage")
    ELSE IF ~IsSome(b.cols) THEN BuildErr("ColumnsNotProvided")
    ELSE IF Unwrap(b.cols) = 0 THEN BuildErr("ZeroSizedImage")
    ELSE LET rows == Unwrap(b.rows)
             cols == Unwrap(b.cols)
         IN  IF IsSome(b.data)
             THEN IF Len(Unwrap(b.data)) # rows * cols
                  THEN BuildErr("DataDoesntMatchDimensions")
                  ELSE [ret |-> Ok, image |-> Image(rows, cols, Unwrap(b.data))]
             ELSE [ret |-> Ok, image |-> Image(rows, cols, [i \in 1..(rows * cols) |-> BLACK])]

\* ---------------------------------------------------------------- f32 arithmetic
\* An f32 is held as the integer v * 2^FractionBits: exact for every f32 of
\* magnitude in {0} \cup [2^-4, 16), the range of a coordinate and of an
\* increment dx/steps of these buffers. Every result is rounded to the 24
\* significant bits of an f32, to nearest, ties to even.
FractionBits == 27
MantissaBits == 24

RECURSIVE Pow2(_)
Pow2(n) == IF n = 0 THEN 1 ELSE 2 * Pow2(n - 1)

Abs(n) == IF n < 0 THEN -n ELSE n

Max(a, b) == IF a >= b THEN a ELSE b

Min(a, b) == IF a <= b THEN a ELSE b

Sign(n) == IF n < 0 THEN -1 ELSE 1

\* The number of bits of n >= 1.
RECURSIVE BitLength(_)
BitLength(n) == IF n = 0 THEN 0 ELSE 1 + BitLength(n \div 2)

\* num/den to the nearest integer, ties to even (num >= 0, den > 0).
RoundHalfEven(num, den) ==
    LET m == num \div den
        r == num % den
    IN  IF 2 * r > den \/ (2 * r = den /\ m % 2 = 1) THEN m + 1 ELSE m

\* The exact value u * 2^-FractionBits rounded to an f32.
F32Round(u) ==
    LET a == Abs(u)
        excess == BitLength(a) - MantissaBits
    IN  IF excess <= 0 THEN u
        ELSE Sign(u) * RoundHalfEven(a, Pow2(excess)) * Pow2(excess)

\* `n as f32` of a small integer: exact.
F32FromInt(n) == n * Pow2(FractionBits)

\* (num as f32) / (den as f32), den > 0: the quotient rounded to 24 bits.
F32Div(num, den) ==
    LET a == Abs(num)
        \* scale so that the quotient has exactly MantissaBits bits
        RECURSIVE Shift(_)
        Shift(k) == IF (a * Pow2(k)) \div den >= Pow2(MantissaBits - 1)
                    THEN k ELSE Shift(k + 1)
        k == Shift(0)
    IN  IF num = 0 THEN 0
        ELSE Sign(num) * RoundHalfEven(a * Pow2(k), den) * Pow2(FractionBits - k)

F32Add(a, b) == F32Round(a + b)

\* `v as i32`: the fraction is dropped (rounding towards zero).
F32ToInt(u) == Sign(u) * (Abs(u) \div Pow2(FractionBits))

\* ---------------------------------------------------------------- lines.rs
\* self.set_pixel(coord, color)? inside a drawing call: nothing more happens
\* once a set_pixel has failed.
plot(st, coord, color) ==
    IF ~IsOk(st.ret) THEN st
    ELSE LET r == set_pixel(st.image, coord, color) IN
         [image |-> r.image,
          ret |-> r.ret,
          plotted |-> IF IsOk(r.ret) THEN Append(st.plotted, coord) ELSE st.plotted]

Rejected(image, v) == [image |-> image, ret |-> v, plotted |-> <<>>]

\* for _ in 0..steps { set_pixel(x as i32, y as i32)?; x += x_increment; y += y_increment }
RECURSIVE dda_loop(_, _, _, _, _, _, _)
dda_loop(st, color, x, y, x_increment, y_increment, remaining) ==
    IF remaining = 0 \/ ~IsOk(st.ret) THEN st
    ELSE dda_loop(plot(st, Coordinate(F32ToInt(x), F32ToInt(y)), color), color,
                  F32Add(x, x_increment), F32Add(y, y_increment),
                  x_increment, y_increment, remaining - 1)

draw_line_dda_InclusiveRange(image, color, coords) ==
    LET v == line_coordinates(image, coords)
        a == coords.first
        b == coords.second
        d == delta_wrt(a, b)
        steps == Max(Abs(d.dx), Abs(d.dy))
    IN  IF ~IsOk(v) THEN Rejected(image, v)
        ELSE IF steps = 0 THEN plot(Running(image), a, color)
        ELSE dda_loop(Running(image), color, F32FromInt(a.x), F32FromInt(a.y),
                      F32Div(d.dx, steps), F32Div(d.dy, steps), steps + 1)

draw_line_dda(image, color, coords) ==
    LET v == line_coordinates(image, coords)
        a == coords.first
        b == coords.second
        d == delta_wrt(a, b)
        steps == Max(Abs(d.dx), Abs(d.dy))
    IN  IF ~IsOk(v) THEN Rejected(image, v)
        ELSE IF steps = 0 THEN Running(image)    \* the increments are NaN and never used
        ELSE dda_loop(Running(image), color, F32FromInt(a.x), F32FromInt(a.y),
                      F32Div(d.dx, steps), F32Div(d.dy, steps), steps)

\* for x_coord in a.x..=b.x { set_pixel((x_coord, a.y))? }
RECURSIVE horizontal_loop(_, _, _, _, _)
horizontal_loop(st, color, x_coord, last, y) ==
    IF x_coord > last \/ ~IsOk(st.ret) THEN st
    ELSE horizontal_loop(plot(st, Coordinate(x_coord, y), color), color, x_coord + 1, last, y)

draw_horizontal_line_KeepsOrder(image, color, coords) ==
    LET v == line_coordinates(image, coords)
    IN  IF ~IsOk(v) THEN Rejected(image, v)
        ELSE horizontal_loop(Running(image), color,
                             coords.first.x, coords.second.x, coords.first.y)

draw_horizontal_line(image, color, coords) ==
    LET v == line_coordinates(image, coords)
        n == ensure_x_lr(coords)
    IN  IF ~IsOk(v) THEN Rejected(image, v)
        ELSE horizontal_loop(Running(image), color, n.first.x, n.second.x, n.first.y)

\* for y_coord in a.y..=b.y { set_pixel((a.x, y_coord))? }
RECURSIVE vertical_loop(_, _, _, _, _)
vertical_loop(st, color, y_coord, last, x) ==
    IF y_coord > last \/ ~IsOk(st.ret) THEN st
    ELSE vertical_loop(plot(st, Coordinate(x, y_coord), color), color, y_coord + 1, last, x)

draw_vertical_line_NormalisesByX(image, color, coords) ==
    LET v == line_coordinates(image, coords)
        n == ensure_x_lr(coords)
    IN  IF ~IsOk(v) THEN Rejected(image, v)
        ELSE vertical_loop(Running(image), color, n.first.y, n.second.y, n.first.x)

draw_vertical_line(image, color, coords) ==
    LET v == line_coordinates(image, coords)
        n == ensure_y_lr(coords)
    IN  IF ~IsOk(v) THEN Rejected(image, v)
        ELSE vertical_loop(Running(image), color, n.first.y, n.second.y, n.first.x)

\* for _ in a.y..=b.y { set_pixel(point)?; point.x += 1; point.y += 1 }
RECURSIVE diagonal_loop(_, _, _, _, _)
diagonal_loop(st, color, point, i, last) ==
    IF i > last \/ ~IsOk(st.ret) THEN st
    ELSE diagonal_loop(plot(st, point, color), color,
                       Coordinate(point.x + 1, point.y + 1), i + 1, last)

draw_diagonal_line_CountsByX(image, color, coords) ==
    LET v == line_coordinates(image, coords)
        n == ensure_x_lr(coords)
    IN  IF ~IsOk(v) THEN Rejected(image, v)
        ELSE diagonal_loop(Running(image), color, Coordinate(n.first.x, n.first.y),
                           n.first.x, n.second.x)

draw_diagonal_line(image, color, coords) ==
    LET v == line_coordinates(image, coords)
        n == ensure_x_lr(coords)
    IN  IF ~IsOk(v) THEN Rejected(image, v)
        ELSE diagonal_loop(Running(image), color, Coordinate(n.first.x, n.first.y),
                           n.first.y, n.second.y)

\* for y in a.y..=b.y { set_pixel((x, y))?; if d > 0 { d += 2dx - 2dy; x += 1 } else { d += 2dx } }
RECURSIVE steep_loop(_, _, _, _, _, _, _, _)
steep_loop(st, color, x, y, last, d, dx, dy) ==
    IF y > last \/ ~IsOk(st.ret) THEN st
    ELSE LET s == plot(st, Coordinate(x, y), color) IN
         IF d > 0
         THEN steep_loop(s, color, x + 1, y + 1, last, d + (2 * dx - 2 * dy), dx, dy)
         ELSE steep_loop(s, color, x, y + 1, last, d + 2 * dx, dx, dy)

bresenham_slope_greater_than_1_SwappedDeltas(image, color, coords) ==
    LET n == ensure_y_lr(coords)
        a == n.first
        b == n.second
        d == delta_wrt(a, b)
    IN  steep_loop(Running(image), color, a.x, a.y, b.y, 2 * d.dy - d.dx, d.dy, d.dx)

bresenham_slope_greater_than_1(image, color, coords) ==
    LET n == ensure_y_lr(coords)
        a == n.first
        b == n.second
        d == delta_wrt(a, b)
    IN  steep_loop(Running(image), color, a.x, a.y, b.y, 2 * d.dx - d.dy, d.dx, d.dy)

\* for x in a.x..=b.x { set_pixel((x, y))?; if d > 0 { d += 2dy - 2dx; y += 1 } else { d += 2dy } }
RECURSIVE general_loop(_, _, _, _, _, _, _, _)
general_loop(st, color, x, y, last, d, dx, dy) ==
    IF x > last \/ ~IsOk(st.ret) THEN st
    ELSE LET s == plot(st, Coordinate(x, y), color) IN
         IF d > 0
         THEN general_loop(s, color, x + 1, y + 1, last, d + (2 * dy - 2 * dx), dx, dy)
         ELSE general_loop(s, color, x + 1, y, last, d + 2 * dy, dx, dy)

bresenham_general_StartsAtTwoDy(image, color, coords) ==
    LET n == ensure_x_lr(coords)
        a == n.first
        b == n.second
        d == delta_wrt(a, b)
    IN  general_loop(Running(image), color, a.x, a.y, b.x, 2 * d.dy, d.dx, d.dy)

bresenham_general(image, color, coords) ==
    LET n == ensure_x_lr(coords)
        a == n.first
        b == n.second
        d == delta_wrt(a, b)
    IN  general_loop(Running(image), color, a.x, a.y, b.x, 2 * d.dy - d.dx, d.dx, d.dy)

abs_slope_Signed(coords) ==
    LET dx == coords.second.x - coords.first.x
        dy == coords.second.y - coords.first.y
    IN  [infinite |-> dx = 0, num |-> dy * Sign(dx), den |-> Abs(dx)]

\* LineCoordinates::slope followed by f32::abs: the magnitude num/den of the
\* slope, or infinity when the x deltas are zero. The f32 quotient of two
\* integers below 2^24 compares to 0.0 and to 1.0 as the exact quotient does.
abs_slope(coords) ==
    LET dx == coords.second.x - coords.first.x
        dy == coords.second.y - coords.first.y
    IN  [infinite |-> dx = 0, num |-> Abs(dy), den |-> Abs(dx)]

SlopeClass(slope) ==
    IF ~slope.infinite /\ slope.num = slope.den THEN "diagonal"
    ELSE IF ~slope.infinite /\ slope.num = 0 THEN "horizontal"
    ELSE IF slope.infinite THEN "vertical"
    ELSE IF slope.num > slope.den THEN "steep"
    ELSE IF slope.num > 0 /\ slope.num < slope.den THEN "general"
    ELSE "panic"

draw_line_bresenham(image, color, coords) ==
    LET v == line_coordinates(image, coords)
        class == SlopeClass(abs_slope(coords))
    IN  IF ~IsOk(v) THEN Rejected(image, v)
        ELSE CASE class = "diagonal" -> draw_diagonal_line(image, color, coords)
               [] class = "horizontal" -> draw_horizontal_line(image, color, coords)
               [] class = "vertical" -> draw_vertical_line(image, color, coords)
               [] class = "steep" -> bresenham_slope_greater_than_1(image, color, coords)
               [] class = "general" -> bresenham_general(image, color, coords)
               [] OTHER -> Rejected(image, Err("panic", NoCoordinate, NoImage))

\* ---------------------------------------------------------------- circles.rs
\* The eight set_pixel calls of one turn of the loop, in the order of the code.
OctantPoints_SeventhTwice(c, x, y) ==
    << Coordinate(c.x + x, c.y + y), Coordinate(c.x - x, c.y + y),
       Coordinate(c.x + x, c.y - y), Coordinate(c.x - x, c.y - y),
       Coordinate(c.x + y, c.y + x), Coordinate(c.x + y, c.y - x),
       Coordinate(c.x - y, c.y + x), Coordinate(c.x - y, c.y + x) >>

OctantPoints(c, x, y) ==
    << Coordinate(c.x + x, c.y + y), Coordinate(c.x - x, c.y + y),
       Coordinate(c.x + x, c.y - y), Coordinate(c.x - x, c.y - y),
       Coordinate(c.x + y, c.y + x), Coordinate(c.x + y, c.y - x),
       Coordinate(c.x - y, c.y + x), Coordinate(c.x - y, c.y - x) >>

RECURSIVE plot_all(_, _, _, _)
plot_all(st, points, i, color) ==
    IF i > Len(points) \/ ~IsOk(st.ret) THEN st
    ELSE plot_all(plot(st, points[i], color), points, i + 1, color)

\* (x * x) as f32 + y_midpoint * y_midpoint > (radius * radius) as f32 with
\* y_midpoint = y + 0.5: every term is a multiple of 1/4 below 2^22, exact in
\* f32, so the test is the integer test on four times each side.
OutsideMidpoint_RadiusNotSquared(x, y, radius) == 4 * (x * x) + (2 * y + 1) * (2 * y + 1) > 4 * radius

OutsideMidpoint(x, y, radius) == 4 * (x * x) + (2 * y + 1) * (2 * y + 1) > 4 * (radius * radius)

\* while x < -y { if outside { y += 1 }; the eight set_pixel calls; x += 1 }
RECURSIVE circle_loop(_, _, _, _, _)
circle_loop(st, color, coords, x, y) ==
    IF ~(x < -y) \/ ~IsOk(st.ret) THEN st
    ELSE LET y1 == IF OutsideMidpoint(x, y, coords.radius) THEN y + 1 ELSE y IN
         circle_loop(plot_all(st, OctantPoints(coords.center, x, y1), 1, color),
                     color, coords, x + 1, y1)

draw_circle(image, color, coords) ==
    LET v == circle_coordinates(image, coords) IN
    IF ~IsOk(v) THEN Rejected(image, v)
    ELSE circle_loop(Running(image), color, coords, 0, -coords.radius)

\* The inner loop of draw_filled_circle over the columns of one row.
RECURSIVE scan_row(_, _, _, _, _)
scan_row(image, color, row, col, hl) ==
    IF col >= image.cols THEN hl
    ELSE LET px == get_pixel(image, Coordinate(row, col)) IN
         IF px.value = color /\ IsOk(px) /\ hl.first.y = hl.second.y
         THEN scan_row(image, color, row, col + 1, [hl EXCEPT !.first = Coordinate(row, col)])
         ELSE IF px.value = color /\ IsOk(px)
              THEN scan_row(image, color, row, col + 1, [hl EXCEPT !.second = Coordinate(row, col)])
              ELSE scan_row(image, color, row, col + 1, hl)

\* The outer loop of draw_filled_circle over the rows.
RECURSIVE fill_rows(_, _, _)
fill_rows(st, color, row) ==
    IF row >= st.image.rows \/ ~IsOk(st.ret) THEN st
    ELSE LET hl == scan_row(st.image, color, row, 0, LineCoordinates(0, 0, 0, 0)) IN
         IF hl # LineCoordinates(0, 0, 0, 0)
         THEN LET r == draw_vertical_line(st.image, color, hl) IN
              fill_rows([image |-> r.image, ret |-> r.ret,
                         plotted |-> st.plotted \o r.plotted], color, row + 1)
         ELSE fill_rows(st, color, row + 1)

draw_filled_circle(image, color, coords) ==
    LET border == draw_circle(image, color, coords) IN
    IF ~IsOk(border.ret) THEN border
    ELSE fill_rows(border, color, 0)

\* ---------------------------------------------------------------- ppm.rs
PPMImage(rows, cols, data, header, filename) ==
    [rows |-> rows, cols |-> cols, data |-> data, header |-> header, filename |-> filename]

\* The value of `ppm` while no PPMImage has been made.
NoPPM == PPMImage(0, 0, <<>>, <<>>, "")

\* The bytes of format!("{n}"): the decimal digits of n in ASCII.
RECURSIVE Digits(_)
Digits(n) == IF n < 10 THEN <<48 + n>> ELSE Append(Digits(n \div 10), 48 + (n % 10))

Header_RowsFirst(rows, cols) ==
    <<80, 54, 10>> \o Digits(rows) \o <<32>> \o Digits(cols) \o <<10, 50, 53, 53, 10>>

\* format!("P6\n{cols} {rows}\n255\n").as_bytes()
Header(rows, cols) ==
    <<80, 54, 10>> \o Digits(cols) \o <<32>> \o Digits(rows) \o <<10, 50, 53, 53, 10>>

from_dims(rows, cols) ==
    PPMImage(rows, cols, [i \in 1..(rows * cols) |-> MAGENTA], Header(rows, cols), "output.ppm")

from_dims_and_pixel_data(rows, cols, pixel_data) ==
    [from_dims(rows, cols) EXCEPT !.data = @ \o pixel_data]

\* PPMImage::fill: a new PPMImage with rows * cols pixels of the colour and the
\* same rows, cols, header and filename.
PPMImage_fill(self, color) ==
    [self EXCEPT !.data = [i \in 1..(self.rows * self.cols) |-> color]]

\* PPMImageBuilder::build on a builder given rows, cols and filename (each an
\* Option): the first missing member is reported, else the PPMImage filled
\* with MAGENTA.
PPMImageBuilder_build(rows, cols, filename) ==
    IF ~IsSome(rows) THEN [ppm |-> NoPPM, ret |-> Err("RowsMissing", NoCoordinate, NoImage)]
    ELSE IF ~IsSome(cols) THEN [ppm |-> NoPPM, ret |-> Err("ColsMissing", NoCoordinate, NoImage)]
    ELSE IF ~IsSome(filename)
         THEN [ppm |-> NoPPM, ret |-> Err("FilenameMissing", NoCoordinate, NoImage)]
    ELSE [ppm |-> PPMImage_fill(PPMImage(Unwrap(rows), Unwrap(cols), <<>>,
                                         Header(Unwrap(rows), Unwrap(cols)), Unwrap(filename)),
                                MAGENTA),
          ret |-> Ok]

\* The three bytes pushed for each pixel: (pixel >> 16) & 0xFF,
\* (pixel >> 8) & 0xFF, pixel & 0xFF.
RECURSIVE PixelBytes(_)
PixelBytes(data) ==
    IF data = <<>> THEN <<>>
    ELSE << (Head(data) \div 65536) % 256, (Head(data) \div 256) % 256, Head(data) % 256 >>
         \o PixelBytes(Tail(data))

\* header then pixels: the buffer handed to fh.write.
WriteBuffer(self) == self.header \o PixelBytes(self.data)

\* PPMImage::write with the file named self.filename holding fs (None: no
\* such file). created: whether fs::File::create succeeds; written: how many
\* bytes of the buffer fh.write puts in the file, its result being dropped.
write_CreatesFirst(self, fs, created, written) ==
    LET v == pixel_data_length(Image(self.rows, self.cols, self.data)) IN
    IF ~created THEN [disk |-> fs, ret |-> Err("IoError", NoCoordinate, NoImage)]
    ELSE IF ~IsOk(v) THEN [disk |-> Some(<<>>), ret |-> v]
    ELSE [disk |-> Some(SubSeq(WriteBuffer(self), 1, written)), ret |-> Ok]

write(self, fs, created, written) ==
    LET v == pixel_data_length(Image(self.rows, self.cols, self.data)) IN
    IF ~IsOk(v) THEN [disk |-> fs, ret |-> v]
    ELSE IF ~created THEN [disk |-> fs, ret |-> Err("IoError", NoCoordinate, NoImage)]
    ELSE [disk |-> Some(SubSeq(WriteBuffer(self), 1, written)), ret |-> Ok]

\* PPMImage::set_pixel: validate::coordinate on the PPMImage's rows, cols and
\* data, then self.data[x * self.rows + y] = color. An index outside the Vec
\* panics.
PPMImage_set_pixel(self, coord, color) ==
    LET v == coordinate(self, coord)
        pixel_index == coord.x * self.rows + coord.y
    IN  IF ~IsOk(v)
        THEN [ppm |-> self, ret |-> v]
        ELSE IF pixel_index + 1 \in DOMAIN self.data
             THEN [ppm |-> [self EXCEPT !.data[pixel_index + 1] = color], ret |-> Ok]
             ELSE [ppm |-> self, ret |-> Err("panic", coord, NoImage)]

PPMImage_get_pixel(self, coord) ==
    LET v == coordinate(self, coord)
        pixel_index == coord.x * self.rows + coord.y
    IN  IF ~IsOk(v)
        THEN v
        ELSE IF pixel_index + 1 \in DOMAIN self.data
             THEN OkValue(self.data[pixel_index + 1])
             ELSE Err("panic", coord, NoImage)

\* ---------------------------------------------------------------- state
VARIABLES
    builder,    \* the ImageBuilder being configured
    phase,      \* "configure": no Image yet; "rejected": build failed; "built"
    image,      \* the Image the caller owns (NoImage until built)
    call,       \* the last call made: the operation and its arguments
    before,     \* the Image as it was when the last call was made
    ret,        \* what the last call returned
    plotted,    \* the coordinates the last call wrote through set_pixel, in order
    ppm,        \* the PPMImage the caller owns (NoPPM until one is made)
    disk,       \* the file named ppm.filename: None, or Some(its bytes)
    loop        \* the while loop of a draw_circle under way: its x, y and passes made

vars == <<builder, phase, image, call, before, ret, plotted, ppm, disk, loop>>

\* A call: op and the arguments it uses (color; a, b: the coordinate or the
\* line's endpoints or the circle's centre; n: the radius or the tile size).
Call(op, color, a, b, n) == [op |-> op, color |-> color, a |-> a, b |-> b, n |-> n]

NoCall == Call("none", BLACK, NoCoordinate, NoCoordinate, 0)

\* The locals of draw_circle while its loop runs (active), and the number of
\* passes of the loop body made so far.
Loop(active, x, y, iters) == [active |-> active, x |-> x, y |-> y, iters |-> iters]

NoLoop == Loop(FALSE, 0, 0, 0)

Init ==
    /\ builder = ImageBuilder_new
    /\ phase = "configure"
    /\ image = NoImage
    /\ call = NoCall
    /\ before = NoImage
    /\ ret = Ok
    /\ plotted = <<>>
    /\ ppm = NoPPM
    /\ disk = None
    /\ loop = NoLoop

\* ---------------------------------------------------------------- builder actions
Configure(b) ==
    /\ phase \in {"configure", "rejected"}
    /\ builder' = b
    /\ phase' = "configure"
    /\ call' = NoCall
    /\ ret' = Ok
    /\ UNCHANGED <<image, before, plotted, ppm, disk, loop>>

SetRows(rows) == Configure([builder EXCEPT !.rows = Some(rows)])

SetCols(cols) == Configure([builder EXCEPT !.cols = Some(cols)])

SetData(data) == Configure([builder EXCEPT !.data = Some(data)])

Build ==
    /\ phase = "configure"
    /\ LET r == build(builder) IN
         /\ image' = r.image
         /\ ret' = r.ret
         /\ phase' = IF IsOk(r.ret) THEN "built" ELSE "rejected"
    /\ call' = Call("build", BLACK, NoCoordinate, NoCoordinate, 0)
    /\ UNCHANGED <<builder, before, plotted, ppm, disk, loop>>

\* ---------------------------------------------------------------- calls on the Image
\* The caller makes call c on the Image; st is what the operation yields.
Made(c, st) ==
    /\ phase = "built"
    /\ call' = c
    /\ before' = image
    /\ image' = st.image
    /\ ret' = st.ret
    /\ plotted' = st.plotted
    /\ builder' = ImageBuilder_new      \* the builder is a temporary of the building expression
    /\ UNCHANGED <<phase, ppm, disk, loop>>

SetPixel(coord, color) ==
    LET r == set_pixel(image, coord, color) IN
    Made(Call("set_pixel", color, coord, NoCoordinate, 0),
         [image |-> r.image, ret |-> r.ret,
          plotted |-> IF IsOk(r.ret) THEN <<coord>> ELSE <<>>])

GetPixel(coord) ==
    Made(Call("get_pixel", BLACK, coord, NoCoordinate, 0),
         [image |-> image, ret |-> get_pixel(image, coord), plotted |-> <<>>])

\* validate::coordinate called on its own.
ValidateCoordinate(coord) ==
    Made(Call("coordinate", BLACK, coord, NoCoordinate, 0),
         [image |-> image, ret |-> coordinate(image, coord), plotted |-> <<>>])

Fill(color) ==
    Made(Call("fill", color, NoCoordinate, NoCoordinate, 0),
         [image |-> fill(image, color), ret |-> Ok, plotted |-> <<>>])

Checkerboard(tile_size, tile_color) ==
    Made(Call("checkerboard", tile_color, NoCoordinate, NoCoordinate, tile_size),
         [image |-> checkerboard(image, tile_size, tile_color), ret |-> Ok, plotted |-> <<>>])

DrawLineDda(color, l) ==
    Made(Call("draw_line_dda", color, l.first, l.second, 0), draw_line_dda(image, color, l))

DrawLineBresenham(color, l) ==
    Made(Call("draw_line_bresenham", color, l.first, l.second, 0),
         draw_line_bresenham(image, color, l))

DrawHorizontalLine(color, l) ==
    Made(Call("draw_horizontal_line", color, l.first, l.second, 0),
         draw_horizontal_line(image, color, l))

DrawVerticalLine(color, l) ==
    Made(Call("draw_vertical_line", color, l.first, l.second, 0),
         draw_vertical_line(image, color, l))

DrawCircle(color, c) ==
    Made(Call("draw_circle", color, c.center, NoCoordinate, c.radius),
         draw_circle(image, color, c))

DrawFilledCircle(color, c) ==
    Made(Call("draw_filled_circle", color, c.center, NoCoordinate, c.radius),
         draw_filled_circle(image, color, c))

\* ---------------------------------------------------------------- inputs
\* Alternating colours, WHITE first: a buffer that is not uniform.
Stripes(n) == [i \in 1..n |-> IF i % 2 = 1 THEN WHITE ELSE BLACK]

Uniform(n, color) == [i \in 1..n |-> color]

\* The Vec<u32> a session hands to the builder: striped or all WHITE, of every
\* length up to MaxDim * MaxDim + 1 (so of the right length, too short, too long).
SessionData ==
    {Stripes(n) : n \in 0..(MaxDim * MaxDim + 1)}
        \cup {Uniform(n, WHITE) : n \in 0..(MaxDim * MaxDim + 1)}

\* Every coordinate of the buffer and one step past each of its edges.
Around(img) == {Coordinate(x, y) : x \in -1..img.rows, y \in -1..img.cols}

\* Every coordinate of the buffer, the nearest coordinate past each of its four
\* edges, and the coordinate past its far corner.
Edges(img) ==
    {Coordinate(x, y) : x \in 0..(img.rows - 1), y \in 0..(img.cols - 1)}
        \cup {Coordinate(-1, 0), Coordinate(0, -1), Coordinate(img.rows, 0),
              Coordinate(0, img.cols), Coordinate(img.rows, img.cols)}

\* The lines of a session: between two opposite corners, in both orders and of
\* zero length, and from the first corner to the coordinate past the far corner.
SessionLines(img) ==
    LET near == Coordinate(0, 0)
        far == Coordinate(img.rows - 1, img.cols - 1)
    IN  {[first |-> a, second |-> b] : a \in {near, far}, b \in {near, far}}
            \cup {[first |-> near, second |-> Coordinate(img.rows, img.cols)]}

\* The circles of a session: about the far corner and about the coordinate
\* past it, of radius 0 and 1.
SessionCircles(img) ==
    {[center |-> c, radius |-> r] :
        c \in {Coordinate(img.rows - 1, img.cols - 1), Coordinate(img.rows, img.cols)},
        r \in 0..1}

LinesOver(points) == {[first |-> a, second |-> b] : a \in points, b \in points}

CirclesOver(points, radii) == {[center |-> c, radius |-> r] : c \in points, r \in radii}

\* The data a caller supplies for the dimensions already given to the builder.
MatchingData ==
    IF IsSome(builder.rows) /\ IsSome(builder.cols)
    THEN {Stripes(Unwrap(builder.rows) * Unwrap(builder.cols))}
    ELSE {}

\* The call is the first one made on a freshly built Image.
FirstCall == call.op = "build"

\* ---------------------------------------------------------------- Spec
\* A whole session: the builder with any dimensions and data, then any
\* sequence of calls on the Image.
Next ==
    \/ \E rows \in 0..MaxDim : SetRows(rows)
    \/ \E cols \in 0..MaxDim : SetCols(cols)
    \/ \E data \in SessionData : SetData(data)
    \/ Build
    \/ \E coord \in Edges(image), color \in Colors : SetPixel(coord, color)
    \/ \E coord \in Edges(image) : GetPixel(coord)
    \/ \E color \in Colors : Fill(color)
    \/ \E tile_size \in 1..MaxTile : Checkerboard(tile_size, WHITE)
    \/ \E l \in SessionLines(image) : DrawLineDda(WHITE, l)
    \/ \E l \in SessionLines(image) : DrawLineBresenham(WHITE, l)
    \/ \E l \in SessionLines(image) : DrawHorizontalLine(WHITE, l)
    \/ \E l \in SessionLines(image) : DrawVerticalLine(WHITE, l)
    \/ \E c \in SessionCircles(image) : DrawCircle(WHITE, c)
    \/ \E c \in SessionCircles(image) : DrawFilledCircle(WHITE, c)

Spec == Init /\ [][Next]_vars

\* ---------------------------------------------------------------- SpecPixels
\* One pixel call, at every coordinate in and around the buffer, on a freshly
\* built Image of up to LineDim x LineDim cells.
NextPixels ==
    \/ \E rows \in 1..LineDim : SetRows(rows)
    \/ \E cols \in 1..LineDim : SetCols(cols)
    \/ \E data \in MatchingData : SetData(data)
    \/ Build
    \/ FirstCall /\ \E coord \in Around(image), color \in Colors : SetPixel(coord, color)
    \/ FirstCall /\ \E coord \in Around(image) : GetPixel(coord)
    \/ FirstCall /\ \E coord \in Around(image) : ValidateCoordinate(coord)

SpecPixels == Init /\ [][NextPixels]_vars

\* ---------------------------------------------------------------- SpecLines
\* One line call, with every pair of endpoints in and around the buffer, on a
\* freshly built Image of up to LineDim x LineDim cells.
NextLines ==
    \/ \E rows \in 1..LineDim : SetRows(rows)
    \/ \E cols \in 1..LineDim : SetCols(cols)
    \/ \E data \in MatchingData : SetData(data)
    \/ Build
    \/ FirstCall /\ \E l \in LinesOver(Around(image)), color \in Colors : DrawLineDda(color, l)
    \/ FirstCall /\ \E l \in LinesOver(Around(image)), color \in Colors : DrawLineBresenham(color, l)
    \/ FirstCall /\ \E l \in LinesOver(Around(image)), color \in Colors : DrawHorizontalLine(color, l)
    \/ FirstCall /\ \E l \in LinesOver(Around(image)), color \in Colors : DrawVerticalLine(color, l)

SpecLines == Init /\ [][NextLines]_vars

\* ---------------------------------------------------------------- SpecCircles
\* One circle call, with every centre in and around the buffer and every
\* radius up to MaxRadius, on a freshly built Image of up to CircleDim x
\* CircleDim cells.
NextCircles ==
    \/ \E rows \in 1..CircleDim : SetRows(rows)
    \/ \E cols \in 1..CircleDim : SetCols(cols)
    \/ \E data \in MatchingData : SetData(data)
    \/ Build
    \/ FirstCall /\ \E c \in CirclesOver(Around(image), 0..MaxRadius), color \in Colors :
           DrawCircle(color, c)
    \/ FirstCall /\ \E c \in CirclesOver(Around(image), 0..MaxRadius), color \in Colors :
           DrawFilledCircle(color, c)

SpecCircles == Init /\ [][NextCircles]_vars

\* ---------------------------------------------------------------- SpecWriter
\* The caller makes call c on a PPMImage; p, r and d are the PPMImage, the
\* result and the file it yields.
MadePPM(c, p, r, d) ==
    /\ call' = c
    /\ ppm' = p
    /\ ret' = r
    /\ disk' = d
    /\ UNCHANGED <<builder, phase, image, before, plotted, loop>>

PPMCall(op) == Call(op, BLACK, NoCoordinate, NoCoordinate, 0)

FromDims(rows, cols) == MadePPM(PPMCall("from_dims"), from_dims(rows, cols), Ok, disk)

FromDimsAndPixelData(rows, cols, pixel_data) ==
    MadePPM(PPMCall("from_dims_and_pixel_data"),
            from_dims_and_pixel_data(rows, cols, pixel_data), Ok, disk)

\* PPMImage::new().rows(..).cols(..).filename(..).build(), any of the three
\* setters left out: an Err leaves the caller with the PPMImage it had.
PPMBuild(rows, cols, filename) ==
    LET r == PPMImageBuilder_build(rows, cols, filename) IN
    MadePPM(PPMCall("ppm_build"), IF IsOk(r.ret) THEN r.ppm ELSE ppm, r.ret, disk)

\* The caller assigns the public field data.
SetDataField(data) ==
    /\ ppm # NoPPM
    /\ MadePPM(PPMCall("data"), [ppm EXCEPT !.data = data], Ok, disk)

Write ==
    /\ ppm # NoPPM
    /\ \E created \in BOOLEAN, written \in 0..Len(WriteBuffer(ppm)) :
          LET r == write(ppm, disk, created, written) IN
          MadePPM(PPMCall("write"), ppm, r.ret, r.disk)

\* n pixels, each different from the others in its three low bytes and with a
\* non-zero top byte: 0x01020301, 0x01020302, ...
Ramp(n) == [i \in 1..n |-> 16909056 + i]

\* The pixel data a caller hands over: none, or one or two pixels.
WriterPixels == {<<>>, <<WHITE>>, <<BLACK, WHITE>>}

\* The data a caller assigns to a PPMImage of n cells: one pixel short, exact
\* or one pixel over.
WriterData(n) ==
    {Uniform(k, WHITE) : k \in (IF n = 0 THEN 0 ELSE n - 1)..(n + 1)} \cup {Ramp(n)}

\* The rows and cols a caller asks for: up to WriterDim each, and one width of
\* two decimal digits.
WriterDims == {<<rows, cols>> : rows \in 0..WriterDim, cols \in 0..WriterDim} \cup {<<0, 10>>}

\* What a caller hands a setter of the PPMImageBuilder, or None when the
\* setter is left out.
MaybeSet(values) == {None} \cup {Some(v) : v \in values}

\* No write has created the file yet.
NoFileYet == disk = None

\* A PPMImage of up to WriterDim x WriterDim cells is made while there is no
\* file, then changed through its public data field and written any number of
\* times.
NextWriter ==
    \/ NoFileYet /\ \E d \in WriterDims : FromDims(d[1], d[2])
    \/ NoFileYet /\ \E d \in WriterDims, pixel_data \in WriterPixels :
           FromDimsAndPixelData(d[1], d[2], pixel_data)
    \/ NoFileYet /\ \E rows \in MaybeSet(0..WriterDim), cols \in MaybeSet(0..WriterDim),
          filename \in MaybeSet({"output.ppm"}) : PPMBuild(rows, cols, filename)
    \/ \E data \in WriterData(ppm.rows * ppm.cols) : SetDataField(data)
    \/ Write

SpecWriter == Init /\ [][NextWriter]_vars

\* ---------------------------------------------------------------- SpecSteps
\* draw_circle taken one pass of its while loop at a time.
\* validate::circle_coordinates, then x = 0, y = -radius.
BeginCircle(color, c) ==
    LET v == circle_coordinates(image, c) IN
    /\ phase = "built"
    /\ ~loop.active
    /\ call' = Call("draw_circle", color, c.center, NoCoordinate, c.radius)
    /\ before' = image
    /\ ret' = v
    /\ plotted' = <<>>
    /\ loop' = Loop(IsOk(v), 0, -c.radius, 0)
    /\ UNCHANGED <<builder, phase, image, ppm, disk>>

StepCircle_KeepsX ==
    /\ loop.active
    /\ loop.x < -loop.y
    /\ \E y1 \in {IF OutsideMidpoint(loop.x, loop.y, call.n) THEN loop.y + 1 ELSE loop.y} :
       \E p \in {OctantPoints(call.a, loop.x, y1)} :
       \E s0 \in {[image |-> image, ret |-> Ok, plotted |-> plotted]} :
       \E s1 \in {plot(s0, p[1], call.color)} :
       \E s2 \in {plot(s1, p[2], call.color)} :
       \E s3 \in {plot(s2, p[3], call.color)} :
       \E s4 \in {plot(s3, p[4], call.color)} :
       \E s5 \in {plot(s4, p[5], call.color)} :
       \E s6 \in {plot(s5, p[6], call.color)} :
       \E s7 \in {plot(s6, p[7], call.color)} :
       \E s8 \in {plot(s7, p[8], call.color)} :
           /\ image' = s8.image
           /\ ret' = s8.ret
           /\ plotted' = s8.plotted
           /\ loop' = Loop(IsOk(s8.ret), loop.x, y1, loop.iters + 1)
    /\ UNCHANGED <<builder, phase, call, before, ppm, disk>>

\* One pass of the body: the midpoint test, the eight set_pixel calls one
\* after the other (the first that fails returns from draw_circle), x += 1.
StepCircle ==
    /\ loop.active
    /\ loop.x < -loop.y
    /\ \E y1 \in {IF OutsideMidpoint(loop.x, loop.y, call.n) THEN loop.y + 1 ELSE loop.y} :
       \E p \in {OctantPoints(call.a, loop.x, y1)} :
       \E s0 \in {[image |-> image, ret |-> Ok, plotted |-> plotted]} :
       \E s1 \in {plot(s0, p[1], call.color)} :
       \E s2 \in {plot(s1, p[2], call.color)} :
       \E s3 \in {plot(s2, p[3], call.color)} :
       \E s4 \in {plot(s3, p[4], call.color)} :
       \E s5 \in {plot(s4, p[5], call.color)} :
       \E s6 \in {plot(s5, p[6], call.color)} :
       \E s7 \in {plot(s6, p[7], call.color)} :
       \E s8 \in {plot(s7, p[8], call.color)} :
           /\ image' = s8.image
           /\ ret' = s8.ret
           /\ plotted' = s8.plotted
           /\ loop' = Loop(IsOk(s8.ret), loop.x + 1, y1, loop.iters + 1)
    /\ UNCHANGED <<builder, phase, call, before, ppm, disk>>

\* The loop condition x < -y fails: Ok(self).
EndCircle ==
    /\ loop.active
    /\ ~(loop.x < -loop.y)
    /\ loop' = [loop EXCEPT !.active = FALSE]
    /\ UNCHANGED <<builder, phase, image, call, before, ret, plotted, ppm, disk>>

\* One drawing call on a freshly built Image of up to StepDim x StepDim cells;
\* a draw_circle runs pass by pass, the calls whose loops are `for` loops over
\* a range run whole.
NextSteps ==
    \/ \E rows \in 1..StepDim : SetRows(rows)
    \/ \E cols \in 1..StepDim : SetCols(cols)
    \/ Build
    \/ FirstCall /\ \E c \in CirclesOver(Around(image), 0..MaxRadius) : BeginCircle(WHITE, c)
    \/ StepCircle
    \/ EndCircle
    \/ FirstCall /\ \E c \in CirclesOver(Around(image), 0..MaxRadius) : DrawFilledCircle(WHITE, c)
    \/ FirstCall /\ \E l \in LinesOver(Around(image)) : DrawLineDda(WHITE, l)
    \/ FirstCall /\ \E l \in LinesOver(Around(image)) : DrawLineBresenham(WHITE, l)
    \/ FirstCall /\ Fill(WHITE)
    \/ FirstCall /\ \E tile_size \in 1..MaxTile : Checkerboard(tile_size, WHITE)

\* The thread that called draw_circle keeps running it.
SpecSteps == Init /\ [][NextSteps]_vars /\ WF_vars(StepCircle \/ EndCircle)

\* ---------------------------------------------------------------- SpecPPM
\* A pixel call on the PPMImage; `before` keeps the PPMImage the call was made
\* on. A panic ends the program.
PPMPixelCall(c, r) ==
    /\ ppm # NoPPM
    /\ ret.kind # "panic"
    /\ call' = c
    /\ before' = ppm
    /\ ppm' = r.ppm
    /\ ret' = r.ret
    /\ UNCHANGED <<builder, phase, image, plotted, disk, loop>>

PPMSetPixel(coord, color) ==
    PPMPixelCall(Call("ppm_set_pixel", color, coord, NoCoordinate, 0),
                 PPMImage_set_pixel(ppm, coord, color))

PPMGetPixel(coord) ==
    PPMPixelCall(Call("ppm_get_pixel", BLACK, coord, NoCoordinate, 0),
                 [ppm |-> ppm, ret |-> PPMImage_get_pixel(ppm, coord)])

\* A PPMImage of up to PPMDim x PPMDim cells is made with from_dims; one
\* set_pixel at a coordinate in or around it, then any number of get_pixel.
NextPPM ==
    \/ ppm = NoPPM /\ \E rows \in 1..PPMDim, cols \in 1..PPMDim : FromDims(rows, cols)
    \/ call.op = "from_dims" /\ \E coord \in Around(ppm), color \in Colors : PPMSetPixel(coord, color)
    \/ \E coord \in Around(ppm) : PPMGetPixel(coord)

SpecPPM == Init /\ [][NextPPM]_vars

\* ================================================================ claims
\* The claims' own reading of "in bounds" and of "the cell at p".
InBounds(img, p) == 0 <= p.x /\ p.x < img.rows /\ 0 <= p.y /\ p.y < img.cols

FlatIndex(img, p) == p.x * img.cols + p.y

LineOps == {"draw_line_dda", "draw_line_bresenham", "draw_horizontal_line", "draw_vertical_line"}

CircleOps == {"draw_circle", "draw_filled_circle"}

\* The coordinates of the cells in which two buffers of the same shape differ.
Changed(old, new) ==
    {p \in {Coordinate(x, y) : x \in 0..(old.rows - 1), y \in 0..(old.cols - 1)} :
        old.data[FlatIndex(old, p) + 1] # new.data[FlatIndex(old, p) + 1]}

\* C1: set_pixel(p, c) at an in-bounds p returns Ok, a following get_pixel(p)
\* returns c, only the cell at flat index p.x * cols + p.y may differ from the
\* buffer before the call, and rows and cols are unchanged.
C1_SetPixelWritesOneCell ==
    (call.op = "set_pixel" /\ InBounds(before, call.a)) =>
        /\ ret = Ok
        /\ get_pixel(image, call.a) = OkValue(call.color)
        /\ Len(image.data) = Len(before.data)
        /\ \A i \in DOMAIN before.data :
              i # FlatIndex(before, call.a) + 1 => image.data[i] = before.data[i]
        /\ image.rows = before.rows
        /\ image.cols = before.cols

C1_Witness ==
    /\ call.op = "set_pixel"
    /\ InBounds(before, call.a)
    /\ before.rows # before.cols
    /\ call.a.x # call.a.y
    /\ image # before

\* C2: set_pixel and get_pixel at a point out of bounds return
\* OutOfBoundsInImageError and the buffer is cell for cell as before the call.
C2_OutOfBoundsLeavesBuffer ==
    (call.op \in {"set_pixel", "get_pixel"} /\ ~InBounds(before, call.a)) =>
        /\ ret.kind = "OutOfBoundsInImageError"
        /\ image = before

C2_Witness ==
    /\ call.op = "set_pixel"
    /\ call.a.x = before.rows
    /\ call.a.y = 0
    /\ before.data = Stripes(Len(before.data))
    /\ Len(before.data) >= 2
    /\ call.color = BLACK
    /\ ret.kind = "OutOfBoundsInImageError"

\* C3: validate::coordinate accepts a point exactly when 0 <= x < rows and
\* 0 <= y < cols; what it rejects it rejects as OutOfBoundsInImageError naming
\* the point. So (0, 0) and (rows - 1, cols - 1) are accepted and every point
\* with x = rows or y = cols is rejected.
C3_CoordinateExclusiveBound ==
    call.op = "coordinate" =>
        /\ IsOk(ret) <=> (0 <= call.a.x /\ call.a.x < before.rows /\
                          0 <= call.a.y /\ call.a.y < before.cols)
        /\ call.a \in {Coordinate(0, 0), Coordinate(before.rows - 1, before.cols - 1)}
              => ret = Ok
        /\ (call.a.x = before.rows \/ call.a.y = before.cols)
              => (ret.kind = "OutOfBoundsInImageError" /\ ret.coord = call.a)

C3_Witness ==
    /\ call.op = "coordinate"
    /\ before.rows # before.cols
    /\ call.a.x = before.rows
    /\ InBounds(before, Coordinate(0, call.a.y))
    /\ ret.kind = "OutOfBoundsInImageError"

\* C4: once built, and after every call, data.length = rows * cols, and rows
\* and cols are the values given at construction (build takes them from the
\* builder; no call changes them).
C4_LengthMatchesDimensions ==
    phase = "built" =>
        /\ Len(image.data) = image.rows * image.cols
        /\ call.op = "build" =>
              (image.rows = Unwrap(builder.rows) /\ image.cols = Unwrap(builder.cols))
        /\ call.op # "build" =>
              (image.rows = before.rows /\ image.cols = before.cols)

C4_Witness ==
    /\ phase = "built"
    /\ call.op = "draw_filled_circle"
    /\ ~IsOk(ret)
    /\ image # before
    /\ image.rows # image.cols

\* C5: build returns an error and no Image when a dimension is zero
\* (ZeroSizedImage), when a dimension was never set (RowsNotProvided /
\* ColumnsNotProvided) or when supplied data has a length other than
\* rows * cols (DataDoesntMatchDimensions); it returns an Image only when both
\* dimensions are set and non-zero and any supplied data has that length.
\* Where several of the conditions hold the error is that of one of them.
C5_BuildRejects ==
    call.op = "build" =>
        LET unset == ~IsSome(builder.rows) \/ ~IsSome(builder.cols)
            zero == \/ (IsSome(builder.rows) /\ Unwrap(builder.rows) = 0)
                    \/ (IsSome(builder.cols) /\ Unwrap(builder.cols) = 0)
            mismatch == /\ ~unset
                        /\ IsSome(builder.data)
                        /\ Len(Unwrap(builder.data)) # Unwrap(builder.rows) * Unwrap(builder.cols)
        IN  /\ IsOk(ret) <=> (~unset /\ ~zero /\ ~mismatch)
            /\ ~IsOk(ret) => (image = NoImage /\ phase = "rejected")
            /\ IsOk(ret) => phase = "built"
            /\ ret.kind \in {"Ok", "ZeroSizedImage", "RowsNotProvided", "ColumnsNotProvided",
                             "DataDoesntMatchDimensions"}
            /\ ret.kind = "ZeroSizedImage" => zero
            /\ ret.kind = "RowsNotProvided" => ~IsSome(builder.rows)
            /\ ret.kind = "ColumnsNotProvided" => ~IsSome(builder.cols)
            /\ ret.kind = "DataDoesntMatchDimensions" => mismatch
            /\ (zero /\ ~unset) => ret.kind = "ZeroSizedImage"
            /\ (unset /\ ~zero) => ret.kind \in {"RowsNotProvided", "ColumnsNotProvided"}
            /\ (mismatch /\ ~zero) => ret.kind = "DataDoesntMatchDimensions"

C5_Witness ==
    /\ call.op = "build"
    /\ ret.kind = "DataDoesntMatchDimensions"
    /\ Len(Unwrap(builder.data)) = Unwrap(builder.rows) * Unwrap(builder.cols) - 1
    /\ image = NoImage

\* C6: a successful build yields exactly rows * cols cells, all BLACK when no
\* data was supplied and equal to the supplied data, element by element, when
\* data was supplied.
C6_BuildInitialises ==
    (call.op = "build" /\ IsOk(ret)) =>
        /\ image.rows = Unwrap(builder.rows)
        /\ image.cols = Unwrap(builder.cols)
        /\ Len(image.data) = Unwrap(builder.rows) * Unwrap(builder.cols)
        /\ ~IsSome(builder.data) => \A i \in DOMAIN image.data : image.data[i] = BLACK
        /\ IsSome(builder.data) =>
              \A i \in DOMAIN image.data : image.data[i] = Unwrap(builder.data)[i]

C6_Witness ==
    /\ call.op = "build"
    /\ IsOk(ret)
    /\ IsSome(builder.data)
    /\ image.rows # image.cols
    /\ \E i, j \in DOMAIN image.data : image.data[i] # image.data[j]

\* C7: after fill(c), get_pixel at every in-bounds coordinate returns c,
\* whatever the buffer held before.
C7_FillSetsEveryCell ==
    call.op = "fill" =>
        \A x \in 0..(image.rows - 1), y \in 0..(image.cols - 1) :
            get_pixel(image, Coordinate(x, y)) = OkValue(call.color)

C7_Witness ==
    /\ call.op = "fill"
    /\ image.rows # image.cols
    /\ \E i, j \in DOMAIN before.data : before.data[i] # before.data[j]
    /\ before.data[Len(before.data)] # call.color

\* C8: a line call with an endpoint out of bounds returns
\* OutOfBoundsInImageError carrying the first out-of-bounds endpoint, in the
\* order (first, second), and a snapshot equal to the buffer before the call;
\* the buffer is unchanged and no pixel is drawn.
C8_LineRejectedUntouched ==
    (call.op \in LineOps /\ (~InBounds(before, call.a) \/ ~InBounds(before, call.b))) =>
        /\ ret.kind = "OutOfBoundsInImageError"
        /\ ret.coord = (IF ~InBounds(before, call.a) THEN call.a ELSE call.b)
        /\ ret.snapshot = before
        /\ image = before
        /\ plotted = <<>>

C8_Witness ==
    /\ call.op = "draw_line_dda"
    /\ ~InBounds(before, call.a)
    /\ ~InBounds(before, call.b)
    /\ call.a # call.b
    /\ ret.coord = call.a
    /\ before.data = Stripes(Len(before.data))
    /\ Len(before.data) >= 2

\* C9: a draw_circle or draw_filled_circle call that returns an error leaves
\* the buffer cell for cell as it was before the call.
C9_CircleErrorLeavesBuffer ==
    (call.op \in CircleOps /\ ~IsOk(ret)) => image = before

\* C10: with both endpoints in bounds draw_line_bresenham and draw_line_dda
\* return Ok, every coordinate they plot is in bounds and inside the bounding
\* box of the two endpoints, and so is every cell they change.
InBox(p, a, b) ==
    /\ Min(a.x, b.x) <= p.x /\ p.x <= Max(a.x, b.x)
    /\ Min(a.y, b.y) <= p.y /\ p.y <= Max(a.y, b.y)

C11_BresenhamColoursEndpoints ==
    (/\ call.op = "draw_line_bresenham"
     /\ InBounds(before, call.a)
     /\ InBounds(before, call.b)
     /\ IsOk(ret)) =>
        /\ get_pixel(image, call.a) = OkValue(call.color)
        /\ get_pixel(image, call.b) = OkValue(call.color)

\* C12: for a line with both endpoints in bounds, after draw_line_dda returns
\* Ok the pixels at first and second both hold the colour.
C12_DdaColoursEndpoints ==
    (/\ call.op = "draw_line_dda"
     /\ InBounds(before, call.a)
     /\ InBounds(before, call.b)
     /\ IsOk(ret)) =>
        /\ get_pixel(image, call.a) = OkValue(call.color)
        /\ get_pixel(image, call.b) = OkValue(call.color)

\* C13: for an in-bounds axis-aligned line draw_line_bresenham sets exactly
\* the cells of the segment, in either endpoint order: with first.y =
\* second.y and first.x # second.x the |dx| + 1 cells (x, first.y) for x from
\* min to max; with first.x = second.x and first.y # second.y the |dy| + 1
\* cells (first.x, y) for y from min to max; no other cell changes.
Segment(a, b) ==
    IF a.y = b.y
    THEN {Coordinate(x, a.y) : x \in Min(a.x, b.x)..Max(a.x, b.x)}
    ELSE {Coordinate(a.x, y) : y \in Min(a.y, b.y)..Max(a.y, b.y)}

Cells(img) == {Coordinate(x, y) : x \in 0..(img.rows - 1), y \in 0..(img.cols - 1)}

AxisAligned(a, b) == (a.y = b.y /\ a.x # b.x) \/ (a.x = b.x /\ a.y # b.y)

C13_AxisAlignedSegment ==
    (/\ call.op = "draw_line_bresenham"
     /\ InBounds(before, call.a)
     /\ InBounds(before, call.b)
     /\ AxisAligned(call.a, call.b)) =>
        /\ ret = Ok
        /\ {plotted[i] : i \in DOMAIN plotted} = Segment(call.a, call.b)
        /\ Len(plotted) = Abs(call.b.x - call.a.x) + Abs(call.b.y - call.a.y) + 1
        /\ \A p \in Cells(before) :
              image.data[FlatIndex(before, p) + 1] =
                  IF p \in Segment(call.a, call.b) THEN call.color
                  ELSE before.data[FlatIndex(before, p) + 1]
        /\ image.rows = before.rows /\ image.cols = before.cols
        /\ Len(image.data) = Len(before.data)

\* A vertical line given from the greater y to the lesser y, three cells
\* long, on a buffer where each of its cells changes.
C13_Witness ==
    /\ call.op = "draw_line_bresenham"
    /\ InBounds(before, call.a)
    /\ InBounds(before, call.b)
    /\ call.a.x = call.b.x
    /\ call.a.y = call.b.y + 2
    /\ Changed(before, image) = Segment(call.a, call.b)
    /\ Len(plotted) = 3

\* C14: for an in-bounds line with dy = dx # 0 (slope exactly +1), in either
\* endpoint order, draw_line_bresenham sets exactly the |dx| + 1 cells
\* (a.x + k, a.y + k) for k in 0..|dx|, where a is the endpoint with the
\* lesser x, and changes no other cell.
LesserX(a, b) == IF a.x <= b.x THEN a ELSE b

Diagonal(a, b) ==
    {Coordinate(LesserX(a, b).x + k, LesserX(a, b).y + k) : k \in 0..Abs(b.x - a.x)}

C14_DiagonalSegment ==
    (/\ call.op = "draw_line_bresenham"
     /\ InBounds(before, call.a)
     /\ InBounds(before, call.b)
     /\ call.b.y - call.a.y = call.b.x - call.a.x
     /\ call.b.x # call.a.x) =>
        /\ ret = Ok
        /\ {plotted[i] : i \in DOMAIN plotted} = Diagonal(call.a, call.b)
        /\ Len(plotted) = Abs(call.b.x - call.a.x) + 1
        /\ \A p \in Cells(before) :
              image.data[FlatIndex(before, p) + 1] =
                  IF p \in Diagonal(call.a, call.b) THEN call.color
                  ELSE before.data[FlatIndex(before, p) + 1]

\* A diagonal given from its greater end to its lesser end, three cells long,
\* off the main diagonal of a non-square buffer, each cell changing.
C14_Witness ==
    /\ call.op = "draw_line_bresenham"
    /\ InBounds(before, call.a)
    /\ InBounds(before, call.b)
    /\ call.a.x = call.b.x + 2
    /\ call.a.y = call.b.y + 2
    /\ call.b.x # call.b.y
    /\ before.rows # before.cols
    /\ Changed(before, image) = Diagonal(call.a, call.b)
    /\ Len(plotted) = 3

\* C15: the set of cells a successful draw_circle colours is closed under the
\* eight reflections of the algorithm: with (cx + a, cy + b) coloured, so are
\* (cx + a, cy - b), (cx - a, cy + b), (cx - a, cy - b), (cx + b, cy + a),
\* (cx + b, cy - a), (cx - b, cy + a) and (cx - b, cy - a).
Coloured == {plotted[i] : i \in DOMAIN plotted}

Reflections(c, a, b) ==
    { Coordinate(c.x + a, c.y - b), Coordinate(c.x - a, c.y + b),
      Coordinate(c.x - a, c.y - b), Coordinate(c.x + b, c.y + a),
      Coordinate(c.x + b, c.y - a), Coordinate(c.x - b, c.y + a),
      Coordinate(c.x - b, c.y - a) }

C15_CircleEightfoldSymmetry ==
    (call.op = "draw_circle" /\ IsOk(ret)) =>
        \A p \in Coloured :
            /\ get_pixel(image, p) = OkValue(call.color)
            /\ \A q \in Reflections(call.a, p.x - call.a.x, p.y - call.a.y) :
                  q \in Coloured /\ get_pixel(image, q) = OkValue(call.color)

\* A radius-3 circle drawn whole: its sixteen cells, off the axes and off the
\* diagonals among them.
C15_Witness ==
    /\ call.op = "draw_circle"
    /\ IsOk(ret)
    /\ call.n = 3
    /\ Cardinality(Coloured) = 16
    /\ Coordinate(call.a.x + 1, call.a.y - 3) \in Coloured
    /\ Coordinate(call.a.x - 3, call.a.y + 1) \in Coloured
    /\ Changed(before, image) # {}

\* C16: every cell (cx + a, cy + b) coloured by a successful draw_circle of
\* radius R >= 1 lies within one pixel of the ideal circle:
\* (R - 1)^2 <= a^2 + b^2 <= (R + 1)^2.
WithinOnePixel(c, radius, p) ==
    LET d == (p.x - c.x) * (p.x - c.x) + (p.y - c.y) * (p.y - c.y) IN
    (radius - 1) * (radius - 1) <= d /\ d <= (radius + 1) * (radius + 1)

C16_CircleWithinOnePixel ==
    (call.op = "draw_circle" /\ IsOk(ret) /\ call.n >= 1) =>
        /\ \A p \in Coloured : WithinOnePixel(call.a, call.n, p)
        /\ \A p \in Changed(before, image) : WithinOnePixel(call.a, call.n, p)

\* A radius-3 circle drawn whole, whose cell at offset (2, -2) is off the
\* ideal circle (squared distance 8 against 9) and changes.
C16_Witness ==
    /\ call.op = "draw_circle"
    /\ IsOk(ret)
    /\ call.n = 3
    /\ Coordinate(call.a.x + 2, call.a.y - 2) \in Coloured
    /\ Coordinate(call.a.x + 2, call.a.y - 2) \in Changed(before, image)

\* C17: draw_circle validates only the centre and never clips silently: with
\* the centre in bounds it returns Ok exactly when R = 0 or cx - R >= 0,
\* cx + R < rows, cy - R >= 0 and cy + R < cols all hold; in every other case
\* it returns OutOfBoundsInImageError for the first plotted point that falls
\* outside the buffer.
Fits(img, c, radius) ==
    /\ c.x - radius >= 0 /\ c.x + radius < img.rows
    /\ c.y - radius >= 0 /\ c.y + radius < img.cols

\* The points of the circle in the order draw_circle plots them, taken from a
\* drawing on a canvas that holds the whole circle.
PlotOrder(c, radius) ==
    LET side == 2 * radius + 1
        canvas == Image(side, side, [i \in 1..(side * side) |-> BLACK])
        drawn == draw_circle(canvas, WHITE, CircleCoordinates(radius, radius, radius)).plotted
    IN  [i \in DOMAIN drawn |->
            Coordinate(drawn[i].x - radius + c.x, drawn[i].y - radius + c.y)]

C17_CircleOkIffFits ==
    (call.op = "draw_circle" /\ InBounds(before, call.a)) =>
        /\ IsOk(ret) <=> (call.n = 0 \/ Fits(before, call.a, call.n))
        /\ ~IsOk(ret) =>
              /\ ret.kind = "OutOfBoundsInImageError"
              /\ \E i \in DOMAIN PlotOrder(call.a, call.n) :
                    /\ PlotOrder(call.a, call.n)[i] = ret.coord
                    /\ ~InBounds(before, ret.coord)
                    /\ \A j \in 1..(i - 1) : InBounds(before, PlotOrder(call.a, call.n)[j])
                    /\ plotted = SubSeq(PlotOrder(call.a, call.n), 1, i - 1)

\* A radius-2 circle that crosses only the last row of the buffer: six plots
\* succeed before the seventh, (cx + 2, cy), is refused.
C17_Witness ==
    /\ call.op = "draw_circle"
    /\ InBounds(before, call.a)
    /\ call.n = 2
    /\ ret.kind = "OutOfBoundsInImageError"
    /\ ret.coord = Coordinate(call.a.x + 2, call.a.y)
    /\ Len(plotted) = 6

\* C18: for a circle with its centre in bounds and R >= 1 that fits inside
\* the buffer, on a buffer that holds no pixel of the fill colour before the
\* call, draw_filled_circle leaves every cell strictly inside the circle's
\* border equal to the colour and every cell outside the border (neither a
\* border cell nor enclosed by it) equal to its value before the call.
Border(c, radius) == {PlotOrder(c, radius)[i] : i \in DOMAIN PlotOrder(c, radius)}

\* p is not a border cell and has border cells on both sides of it in its row
\* and in its column.
Enclosed(c, radius, p) ==
    /\ p \notin Border(c, radius)
    /\ \E l, r \in Border(c, radius) : l.x = p.x /\ r.x = p.x /\ l.y < p.y /\ p.y < r.y
    /\ \E u, d \in Border(c, radius) : u.y = p.y /\ d.y = p.y /\ u.x < p.x /\ p.x < d.x

C18_FilledCircleFillsInside ==
    (/\ call.op = "draw_filled_circle"
     /\ InBounds(before, call.a)
     /\ call.n >= 1
     /\ Fits(before, call.a, call.n)
     /\ \A i \in DOMAIN before.data : before.data[i] # call.color) =>
        /\ IsOk(ret)
        /\ \A p \in Cells(before) :
              /\ Enclosed(call.a, call.n, p) =>
                    image.data[FlatIndex(before, p) + 1] = call.color
              /\ (p \notin Border(call.a, call.n) /\ ~Enclosed(call.a, call.n, p)) =>
                    image.data[FlatIndex(before, p) + 1] = before.data[FlatIndex(before, p) + 1]

\* C19: for every tile_size >= 1, after checkerboard(tile_size, tile_color)
\* each cell (row, col) equals tile_color when row / tile_size +
\* col / tile_size (integer division) is even and equals its value before the
\* call when that sum is odd; rows, cols and the data length are unchanged.
C19_CheckerboardPaintsEvenTiles ==
    (call.op = "checkerboard" /\ call.n >= 1) =>
        /\ image.rows = before.rows
        /\ image.cols = before.cols
        /\ Len(image.data) = Len(before.data)
        /\ \A p \in Cells(before) :
              image.data[FlatIndex(before, p) + 1] =
                  IF ((p.x \div call.n) + (p.y \div call.n)) % 2 = 0
                  THEN call.color
                  ELSE before.data[FlatIndex(before, p) + 1]

\* Tiles of one cell on a two-column buffer: the cell at (0, 0) changes to
\* the tile colour, the cell at (0, 1) keeps another colour.
C19_Witness ==
    /\ call.op = "checkerboard"
    /\ call.n = 1
    /\ before.rows >= 1
    /\ before.cols = 2
    /\ before.data[1] # call.color
    /\ image.data[1] = call.color
    /\ image.data[2] # call.color
    /\ image.data[2] = before.data[2]

Decimal(n) == IF n < 10 THEN <<48 + n>> ELSE <<48 + (n \div 10), 48 + (n % 10)>>

\* Byte k (1-based) of the stream the claim describes for self.
StreamByte(self, k) ==
    LET head == <<80, 54, 10>> \o Decimal(self.cols) \o <<32>> \o Decimal(self.rows)
                \o <<10, 50, 53, 53, 10>>
        cell == (k - Len(head) - 1) \div 3
        c == self.data[cell + 1] % 16777216
    IN  IF k <= Len(head) THEN head[k]
        ELSE CASE (k - Len(head) - 1) % 3 = 0 -> c \div 65536
               [] (k - Len(head) - 1) % 3 = 1 -> (c \div 256) % 256
               [] OTHER -> c % 256

StreamLength(self) ==
    9 + Len(Decimal(self.cols)) + Len(Decimal(self.rows)) + 3 * self.rows * self.cols

C21_SerializedStream ==
    (call.op = "write" /\ IsOk(ret)) =>
        /\ Len(WriteBuffer(ppm)) = StreamLength(ppm)
        /\ \A k \in 1..Len(WriteBuffer(ppm)) :
              /\ WriteBuffer(ppm)[k] = StreamByte(ppm, k)
              /\ WriteBuffer(ppm)[k] \in 0..255
        /\ IsSome(disk)
        /\ \A k \in 1..Len(Unwrap(disk)) : Unwrap(disk)[k] = StreamByte(ppm, k)

\* A PPMImage of 2 rows and 1 column holding 0x01020301 and 0x01020302 has
\* been written whole: 18 bytes, "P6\n1 2\n255\n" then 2 3 1 and 2 3 2.
C21_Witness ==
    /\ call.op = "write"
    /\ IsOk(ret)
    /\ ppm.rows = 2 /\ ppm.cols = 1
    /\ ppm.data = Ramp(2)
    /\ disk = Some(<<80, 54, 10, 49, 32, 50, 10, 50, 53, 53, 10, 2, 3, 1, 2, 3, 2>>)

\* C22: the panic branch of draw_line_bresenham is unreachable: every line
\* whose endpoints pass validation falls into exactly one of the five handled
\* slope classes (|slope| = 1, = 0, = infinity, > 1, strictly between 0 and
\* 1), zero-length lines and lines of negative slope included, so no drawing
\* call panics on the coordinates its caller supplies.
HandledClasses(a, b) ==
    LET dx == b.x - a.x
        dy == b.y - a.y
    IN  {c \in {"diagonal", "horizontal", "vertical", "steep", "general"} :
            \/ c = "diagonal" /\ dx # 0 /\ Abs(dy) = Abs(dx)
            \/ c = "horizontal" /\ dx # 0 /\ dy = 0
            \/ c = "vertical" /\ dx = 0
            \/ c = "steep" /\ dx # 0 /\ Abs(dy) > Abs(dx)
            \/ c = "general" /\ dx # 0 /\ 0 < Abs(dy) /\ Abs(dy) < Abs(dx)}

C22_NoPanic ==
    /\ call.op \in LineOps => ret.kind # "panic"
    /\ (/\ call.op = "draw_line_bresenham"
        /\ InBounds(before, call.a)
        /\ InBounds(before, call.b)) =>
          /\ IsOk(ret)
          /\ HandledClasses(call.a, call.b) =
                 {SlopeClass(abs_slope(LineCoordinates(call.a.x, call.a.y, call.b.x, call.b.y)))}

\* A line of negative slope steeper than 1, given from its lower-x end, has
\* been drawn.
C22_Witness ==
    /\ call.op = "draw_line_bresenham"
    /\ InBounds(before, call.a)
    /\ InBounds(before, call.b)
    /\ call.b.x - call.a.x = 1
    /\ call.b.y - call.a.y = -3
    /\ IsOk(ret)
    /\ plotted # <<>>

\* C23: every drawing call terminates for every input, completing or
\* returning an error: fill and checkerboard visit each cell once, each line
\* routine makes at most max(|dx|, |dy|) + 1 passes, the loop of draw_circle
\* (while x < -y) makes at most R passes, and draw_filled_circle makes one
\* bounded scan per row.
IterationBounds ==
    /\ call.op = "draw_circle" =>
          /\ loop.iters <= call.n
          /\ Len(plotted) <= 8 * loop.iters
          /\ ~loop.active =>
                [image |-> image, ret |-> ret, plotted |-> plotted] =
                    draw_circle(before, call.color,
                                CircleCoordinates(call.a.x, call.a.y, call.n))
    /\ call.op \in {"draw_line_dda", "draw_line_bresenham"} =>
          Len(plotted) <= Max(Abs(call.b.x - call.a.x), Abs(call.b.y - call.a.y)) + 1
    /\ call.op = "draw_filled_circle" =>
          Len(plotted) <= 8 * call.n + before.rows * before.cols
    /\ call.op \in {"fill", "checkerboard"} =>
          IsOk(ret) /\ Len(image.data) = before.rows * before.cols

CallLine == LineCoordinates(call.a.x, call.a.y, call.b.x, call.b.y)

Swapped(l) == LineCoordinates(l.second.x, l.second.y, l.first.x, l.first.y)

\* C24: ensure_x_lr returns a segment with first.x <= second.x and ensure_y_lr
\* one with first.y <= second.y; each returns the two endpoints of its input,
\* unchanged or swapped, returns the input itself when it is already ordered,
\* and applied twice gives what it gives applied once.
C24_EnsureOrdersEndpoints ==
    call.op \in LineOps =>
        LET l == CallLine
            nx == ensure_x_lr(l)
            ny == ensure_y_lr(l)
        IN  /\ nx.first.x <= nx.second.x
            /\ ny.first.y <= ny.second.y
            /\ nx \in {l, Swapped(l)}
            /\ ny \in {l, Swapped(l)}
            /\ (l.first.x <= l.second.x => nx = l)
            /\ (l.first.y <= l.second.y => ny = l)
            /\ ensure_x_lr(nx) = nx
            /\ ensure_y_lr(ny) = ny

\* A call whose segment ensure_x_lr swaps and ensure_y_lr leaves alone.
C24_Witness ==
    /\ call.op = "draw_line_bresenham"
    /\ call.a.x > call.b.x
    /\ call.a.y < call.b.y
    /\ ensure_x_lr(CallLine) = Swapped(CallLine)
    /\ ensure_y_lr(CallLine) = CallLine

\* C25: PPMImage::set_pixel and PPMImage::get_pixel use the cell at flat index
\* x * cols + y: a call at a coordinate inside rows x cols stays inside the
\* data (it returns Ok), set_pixel(p, c) stores c at that index, get_pixel(p)
\* reads that index, and set_pixel(p, c) leaves what get_pixel(q) returns for
\* every other in-bounds q as it was.
C25_PPMPixelIndex ==
    /\ (call.op = "ppm_set_pixel" /\ InBounds(before, call.a)) =>
          /\ IsOk(ret)
          /\ ppm.data[FlatIndex(before, call.a) + 1] = call.color
          /\ \A q \in Cells(before) \ {call.a} :
                PPMImage_get_pixel(ppm, q) = PPMImage_get_pixel(before, q)
    /\ (call.op = "ppm_get_pixel" /\ InBounds(before, call.a)) =>
          /\ IsOk(ret)
          /\ ret.value = before.data[FlatIndex(before, call.a) + 1]

\* C26: for a line with both endpoints in bounds, dx * dy > 0 and |dx| # |dy|,
\* draw_line_bresenham colours exactly max(|dx|, |dy|) + 1 cells, one for each
\* value of the major-axis coordinate between the endpoints; from one cell to
\* the next the minor-axis coordinate stays or grows by 1; and every coloured
\* cell (x, y) has |2 * (dy * (x - a.x) - dx * (y - a.y))| <= max(|dx|, |dy|),
\* where a is the lesser endpoint and dx, dy are taken from a to the other.
PositiveSlope(a, b) ==
    /\ (b.x - a.x) * (b.y - a.y) > 0
    /\ Abs(b.x - a.x) # Abs(b.y - a.y)

C26_BresenhamHalfPixel ==
    (/\ call.op = "draw_line_bresenham"
     /\ InBounds(before, call.a)
     /\ InBounds(before, call.b)
     /\ PositiveSlope(call.a, call.b)) =>
        LET a == LesserX(call.a, call.b)
            dx == Abs(call.b.x - call.a.x)
            dy == Abs(call.b.y - call.a.y)
            major == Max(dx, dy)
            Major(p) == IF dx > dy THEN p.x ELSE p.y
            Minor(p) == IF dx > dy THEN p.y ELSE p.x
        IN  /\ ret = Ok
            /\ Len(plotted) = major + 1
            /\ Cardinality(Coloured) = major + 1
            /\ \A p \in Cells(before) :
                  image.data[FlatIndex(before, p) + 1] =
                      IF p \in Coloured THEN call.color
                      ELSE before.data[FlatIndex(before, p) + 1]
            /\ \A i \in DOMAIN plotted : Major(plotted[i]) = Major(a) + i - 1
            /\ Minor(plotted[1]) = Minor(a)
            /\ \A i \in 1..major :
                  Minor(plotted[i + 1]) - Minor(plotted[i]) \in {0, 1}
            /\ \A i \in DOMAIN plotted :
                  Abs(2 * (dy * (plotted[i].x - a.x) - dx * (plotted[i].y - a.y))) <= major

\* A line of slope 2/5 given from its greater end, and one of slope 5/2: each
\* has cells on both sides of the ideal line.
C26_Witness ==
    /\ call.op = "draw_line_bresenham"
    /\ InBounds(before, call.a)
    /\ InBounds(before, call.b)
    /\ ret = Ok
    /\ \/ call.a.x - call.b.x = 5 /\ call.a.y - call.b.y = 2
       \/ call.b.x - call.a.x = 2 /\ call.b.y - call.a.y = 5
    /\ \E i, j \in DOMAIN plotted :
          LET a == LesserX(call.a, call.b)
              dx == Abs(call.b.x - call.a.x)
              dy == Abs(call.b.y - call.a.y)
          IN  /\ dy * (plotted[i].x - a.x) - dx * (plotted[i].y - a.y) > 0
              /\ dy * (plotted[j].x - a.x) - dx * (plotted[j].y - a.y) < 0

\* C27: draw_line_bresenham does not depend on the order of the endpoints:
\* for in-bounds a and b, any colour and any starting buffer, the buffer after
\* drawing (a, b) is the buffer that drawing (b, a) on the same starting
\* buffer gives, and both calls return Ok.
Reversed == draw_line_bresenham(before, call.color, Swapped(CallLine))

C27_BresenhamOrderIndependent ==
    (/\ call.op = "draw_line_bresenham"
     /\ InBounds(before, call.a)
     /\ InBounds(before, call.b)) =>
        /\ ret = Ok
        /\ Reversed.ret = Ok
        /\ image = Reversed.image
        /\ Coloured = {Reversed.plotted[i] : i \in DOMAIN Reversed.plotted}

\* A line of negative slope given from its greater x to its lesser x, which
\* changes the buffer.
C27_Witness ==
    /\ call.op = "draw_line_bresenham"
    /\ InBounds(before, call.a)
    /\ InBounds(before, call.b)
    /\ call.a.x > call.b.x
    /\ call.b.y - call.a.y = 2
    /\ call.a.x - call.b.x = 3
    /\ image # before
    /\ image = Reversed.image

\* C28: for a line with both endpoints in bounds and dx * dy < 0,
\* draw_line_bresenham returns Ok and colours an axis-aligned run from the
\* normalised first endpoint a: no cell when |dy| = |dx|; the cells (x, a.y)
\* for x from a.x to b.x when |dy| < |dx|, a being the endpoint of lesser x;
\* the cells (a.x, y) for y from a.y to b.y when |dy| > |dx|, a being the
\* endpoint of lesser y. No other cell changes.
LesserY(a, b) == IF a.y <= b.y THEN a ELSE b

NegativeSlopeRun(a, b) ==
    LET dx == Abs(b.x - a.x)
        dy == Abs(b.y - a.y)
    IN  IF dy = dx THEN {}
        ELSE IF dy < dx
             THEN {Coordinate(x, LesserX(a, b).y) : x \in Min(a.x, b.x)..Max(a.x, b.x)}
             ELSE {Coordinate(LesserY(a, b).x, y) : y \in Min(a.y, b.y)..Max(a.y, b.y)}

C28_NegativeSlopeRun ==
    (/\ call.op = "draw_line_bresenham"
     /\ InBounds(before, call.a)
     /\ InBounds(before, call.b)
     /\ (call.b.x - call.a.x) * (call.b.y - call.a.y) < 0) =>
        /\ ret = Ok
        /\ Coloured = NegativeSlopeRun(call.a, call.b)
        /\ Len(plotted) = Cardinality(NegativeSlopeRun(call.a, call.b))
        /\ \A p \in Cells(before) :
              image.data[FlatIndex(before, p) + 1] =
                  IF p \in NegativeSlopeRun(call.a, call.b) THEN call.color
                  ELSE before.data[FlatIndex(before, p) + 1]

\* A line of slope -1 across the whole of a 4 x 4 buffer, which leaves the
\* buffer as it was.
C28_Witness ==
    /\ call.op = "draw_line_bresenham"
    /\ call.a = Coordinate(3, 0)
    /\ call.b = Coordinate(0, 3)
    /\ before.rows = 4
    /\ before.cols = 4
    /\ ret = Ok
    /\ plotted = <<>>
    /\ image = before

\* C29: for a line whose two endpoints are the same in-bounds point p, both
\* line algorithms return Ok; draw_line_bresenham takes the slope as infinite,
\* goes to the vertical case and colours exactly the cell p; draw_line_dda
\* makes no set_pixel call and leaves the buffer unchanged.
C29_ZeroLengthLine ==
    (/\ call.op \in {"draw_line_bresenham", "draw_line_dda"}
     /\ InBounds(before, call.a)
     /\ call.b = call.a) =>
        /\ ret = Ok
        /\ call.op = "draw_line_bresenham" =>
              /\ abs_slope(CallLine).infinite
              /\ SlopeClass(abs_slope(CallLine)) = "vertical"
              /\ plotted = <<call.a>>
              /\ \A p \in Cells(before) :
                    image.data[FlatIndex(before, p) + 1] =
                        IF p = call.a THEN call.color
                        ELSE before.data[FlatIndex(before, p) + 1]
        /\ call.op = "draw_line_dda" =>
              /\ plotted = <<>>
              /\ image = before

\* A zero-length Bresenham line that changed the cell it names.
C29_Witness ==
    /\ call.op = "draw_line_bresenham"
    /\ call.a = Coordinate(2, 1)
    /\ call.b = call.a
    /\ ret = Ok
    /\ Changed(before, image) = {call.a}

\* C30: on an Image made by ImageBuilder::build, after any sequence of calls,
\* validate::coordinate returns OutOfBoundsInMemoryError for no coordinate,
\* and for every coordinate it accepts the flat index x * cols + y is below
\* the length of the data; no call returns that error or indexes outside the
\* data.
C30_NoOutOfBoundsInMemory ==
    phase = "built" =>
        /\ \A coord \in Around(image) :
              /\ coordinate(image, coord).kind # "OutOfBoundsInMemoryError"
              /\ IsOk(coordinate(image, coord)) =>
                    /\ 0 <= FlatIndex(image, coord)
                    /\ FlatIndex(image, coord) < Len(image.data)
                    /\ IsOk(get_pixel(image, coord))
                    /\ IsOk(set_pixel(image, coord, WHITE).ret)
        /\ ret.kind \notin {"OutOfBoundsInMemoryError", "panic"}

\* An Image that calls have replaced and written, whose last cell sits at the
\* last index of its data.
C30_Witness ==
    /\ phase = "built"
    /\ call.op = "fill"
    /\ before.data # image.data
    /\ image.rows = 2
    /\ image.cols = 2
    /\ coordinate(image, Coordinate(1, 1)) = Ok
    /\ FlatIndex(image, Coordinate(1, 1)) = Len(image.data) - 1

====
